---- MODULE Spec2Model ----
(***************************************************************************)
(* Model of streamlit_video_downloader.py: the error classifier            *)
(* classify_download_error and the Streamlit script (URL input, quality    *)
(* selector, download button handler around the yt-dlp engine call).       *)
(*                                                                         *)
(* Representation of Python str values: a str is a sequence of chunks      *)
(* whose concatenation is the text.  Text that is searched (error          *)
(* messages) is chunked into single characters; fixed UI literals are a    *)
(* single chunk.  Non-ASCII letters of the Spanish UI literals are written *)
(* in ASCII.                                                               *)
(***************************************************************************)
EXTENDS Naturals, Sequences, FiniteSets

VARIABLES
    err_msg,        \* classifier: the message handed to classify_download_error
    result,         \* classifier: the (title, explanation) it returned, or None
    pc,             \* per session: "idle" | "engine" | "returned"
    url,            \* per session: value of the URL text input in this run
    quality_choice, \* per session: value of the quality selectbox in this run
    ydl_opts,       \* per session: the engine options built in this run, or None
    info,           \* per session: the info dict the engine returned, or None
    file_path,      \* per session: Path(ydl.prepare_filename(info)), or None
    screen,         \* per session: the elements rendered in this run, in order
    calls,          \* per session: URLs handed to ydl.extract_info in this run
    opened,         \* per session: paths opened for reading in this run
    files           \* the temporary directory: path -> content

vars == << err_msg, result, pc, url, quality_choice, ydl_opts, info,
           file_path, screen, calls, opened, files >>

handlerVars == << pc, url, quality_choice, ydl_opts, info, file_path,
                  screen, calls, opened, files >>

\* Optional values: None, or Some(x) with the value at index 1.
None == << >>
Some(x) == << x >>

\* Longest message, in fragments, that the classifier is run on.
MaxFragments == 3

-----------------------------------------------------------------------------
(* Strings *)

UpperCase ==
    <<"A","B","C","D","E","F","G","H","I","J","K","L","M",
      "N","O","P","Q","R","S","T","U","V","W","X","Y","Z">>

LowerCase ==
    <<"a","b","c","d","e","f","g","h","i","j","k","l","m",
      "n","o","p","q","r","s","t","u","v","w","x","y","z">>

\* str.lower() on one character.
LowerChar(c) ==
    IF \E i \in 1..Len(UpperCase) : UpperCase[i] = c
    THEN LowerCase[CHOOSE i \in 1..Len(UpperCase) : UpperCase[i] = c]
    ELSE c

StrLower_Identity(s) == s

\* str.lower()
StrLower(s) == [i \in 1..Len(s) |-> LowerChar(s[i])]

\* Python's  pat in s  on strings: pat occurs as a contiguous substring.
Contains(pat, s) ==
    \E i \in 0..(Len(s) - Len(pat)) :
        \A j \in 1..Len(pat) : s[i + j] = pat[j]

PatUnsupportedUrl ==
    <<"u","n","s","u","p","p","o","r","t","e","d"," ","u","r","l">>
PatNoExtractor ==
    <<"n","o"," ","e","x","t","r","a","c","t","o","r">>
PatDrm ==
    <<"d","r","m">>
PatEncrypted ==
    <<"e","n","c","r","y","p","t","e","d">>
PatUnavailable ==
    <<"t","h","i","s"," ","v","i","d","e","o"," ","i","s"," ",
      "u","n","a","v","a","i","l","a","b","l","e">>
PatCountry ==
    <<"c","o","u","n","t","r","y">>
PatLogin ==
    <<"l","o","g","i","n">>
PatCookies ==
    <<"c","o","o","k","i","e","s">>
PatPrivate ==
    <<"p","r","i","v","a","t","e">>
PatFfmpeg ==
    <<"f","f","m","p","e","g">>
PatNotFound ==
    <<"n","o","t"," ","f","o","u","n","d">>
PatFileNameTooLong ==
    <<"f","i","l","e"," ","n","a","m","e"," ","t","o","o"," ","l","o","n","g">>

-----------------------------------------------------------------------------
(* classify_download_error *)

TitleUnsupported == <<"Sitio no soportado">>
TitleDrm         == <<"Contenido protegido por DRM">>
TitleGeo         == <<"Geo-bloqueo">>
TitleLogin       == <<"Requiere iniciar sesion">>
TitleFfmpeg      == <<"FFmpeg no encontrado">>
TitleTooLong     == <<"Nombre de archivo demasiado largo">>
TitleUnknown     == <<"Error desconocido">>

ExplUnsupported ==
    <<"El sitio web no esta en la lista de extractores de yt-dlp. Prueba con otra URL o revisa soporte con yt-dlp --list-extractors.">>
ExplDrm ==
    <<"No es posible descargar/descifrar videos con DRM: Netflix, Disney+, etc.">>
ExplGeo ==
    <<"El video esta restringido en tu region. Usa una VPN situada en el pais permitido.">>
ExplLogin ==
    <<"Debes pasar tus cookies del navegador, --cookies-from-browser, para contenido privado o con edad restringida.">>
ExplFfmpeg ==
    <<"Instala FFmpeg y asegurate de que este disponible en tu PATH del sistema.">>
ExplTooLong ==
    <<"El titulo del video excede el limite del sistema de archivos. Se recomienda usar un nombre de archivo corto.">>

\* "unsupported url" in lower or "no extractor" in lower
MatchUnsupported(lower) ==
    Contains(PatUnsupportedUrl, lower) \/ Contains(PatNoExtractor, lower)

MatchDrm_OnlyDrm(lower) == Contains(PatDrm, lower)

\* "drm" in lower or "encrypted" in lower
MatchDrm(lower) ==
    Contains(PatDrm, lower) \/ Contains(PatEncrypted, lower)

\* "this video is unavailable" in lower and "country" in lower
MatchGeo(lower) ==
    Contains(PatUnavailable, lower) /\ Contains(PatCountry, lower)

MatchLogin_NoPrivate(lower) ==
    Contains(PatLogin, lower) \/ Contains(PatCookies, lower)

\* "login" in lower or "cookies" in lower or "private" in lower
MatchLogin(lower) ==
    \/ Contains(PatLogin, lower)
    \/ Contains(PatCookies, lower)
    \/ Contains(PatPrivate, lower)

\* "ffmpeg" in lower and "not found" in lower
MatchFfmpeg(lower) ==
    Contains(PatFfmpeg, lower) /\ Contains(PatNotFound, lower)

\* "file name too long" in lower
MatchTooLong(lower) == Contains(PatFileNameTooLong, lower)

Fallback_EchoLower(msg, lower) == << TitleUnknown, lower >>

\* return ("Error desconocido", err_msg)
Fallback(msg, lower) == << TitleUnknown, msg >>

classify_download_error(msg) ==
    LET lower == StrLower(msg) IN
    IF MatchUnsupported(lower) THEN << TitleUnsupported, ExplUnsupported >>
    ELSE IF MatchDrm(lower) THEN << TitleDrm, ExplDrm >>
    ELSE IF MatchGeo(lower) THEN << TitleGeo, ExplGeo >>
    ELSE IF MatchLogin(lower) THEN << TitleLogin, ExplLogin >>
    ELSE IF MatchFfmpeg(lower) THEN << TitleFfmpeg, ExplFfmpeg >>
    ELSE IF MatchTooLong(lower) THEN << TitleTooLong, ExplTooLong >>
    ELSE Fallback(msg, lower)

-----------------------------------------------------------------------------
(* Error messages the classifier is run on: concatenations of at most      *)
(* MaxFragments of these fragments.  They reach every pattern, in mixed    *)
(* case, alone and together with the others; "Log" + "in" forms a pattern  *)
(* across a fragment boundary.                                             *)

Fragments ==
    << <<"U","n","s","u","p","p","o","r","t","e","d"," ","U","R","L">>,
       <<"N","o"," ","E","x","t","r","a","c","t","o","r">>,
       <<"D","R","M">>,
       <<"E","n","c","r","y","p","t","e","d">>,
       <<"T","h","i","s"," ","v","i","d","e","o"," ","i","s"," ",
         "u","n","a","v","a","i","l","a","b","l","e">>,
       <<"C","o","u","n","t","r","y">>,
       <<"L","o","g">>,
       <<"i","n">>,
       <<"c","o","o","k","i","e","s">>,
       <<"P","R","I","V","A","T","E">>,
       <<"F","F","m","p","e","g">>,
       <<"N","o","t"," ","F","o","u","n","d">>,
       <<"F","i","l","e"," ","n","a","m","e"," ","t","o","o"," ","l","o","n","g">>,
       <<"T","i","m","e","d"," ","O","u","t">> >>

RECURSIVE Concat(_)
Concat(fs) == IF fs = << >> THEN << >> ELSE Head(fs) \o Concat(Tail(fs))

Messages ==
    { Concat([i \in DOMAIN ix |-> Fragments[ix[i]]]) :
        ix \in UNION { [1..n -> 1..Len(Fragments)] : n \in 0..MaxFragments } }

-----------------------------------------------------------------------------
(* The Streamlit script.  Every browser session runs the script from the   *)
(* top on each interaction, in a thread of its own; the sessions share the *)
(* temporary directory.                                                    *)

Sessions == {"s1", "s2"}

QUALITY_SPEC ==
    [ k \in {"Best available", "1080p HD", "720p", "480p"} |->
        CASE k = "Best available" ->
                "bestvideo[ext=mp4]+bestaudio[ext=m4a]/best[ext=mp4]"
          [] k = "1080p HD" ->
                "bestvideo[height<=1080][ext=mp4]+bestaudio[ext=m4a]/best[height<=1080][ext=mp4]"
          [] k = "720p" ->
                "bestvideo[height<=720][ext=mp4]+bestaudio[ext=m4a]/best[height<=720][ext=mp4]"
          [] k = "480p" ->
                "bestvideo[height<=480][ext=mp4]+bestaudio[ext=m4a]/best[height<=480][ext=mp4]" ]

\* What the user may have typed into the URL field: nothing, or one of two
\* URLs of different media.
UrlInputs == {"", "https://a.example/v/a", "https://b.example/v/b"}

\* The engine's view of the world: the info dict of the media behind a URL
\* (ext is the merged container, merge_output_format), None for no media.
Extract(u) ==
    CASE u = "https://a.example/v/a" ->
            Some([id |-> "a", title |-> "Video A", ext |-> "mp4"])
      [] u = "https://b.example/v/b" ->
            Some([id |-> "b", title |-> "Video B", ext |-> "mp4"])
      [] OTHER -> None

\* Size in MB of each media's file.
MediaSizeMB == [m \in {"a", "b"} |-> IF m = "a" THEN 120 ELSE 350]

\* tmp_dir = Path(tempfile.gettempdir()) / "streamlit_video_dl"
tmp_dir == "/tmp/streamlit_video_dl"

\* outtmpl = os.path.join(tmp_dir.as_posix(), "% (id)s.%(ext)s"): the
\* directory and the file name template, cut into its segments as written.
outtmpl == [dir |-> tmp_dir, name |-> <<"% (id)s", ".", "%(ext)s">>]

\* The engine's expansion of one template segment: a segment of the form
\* %(field)s is replaced by the field's value; any other text, "% (id)s"
\* with its blank after the percent sign included, is no field reference
\* and stays as it is written.
ExpandSegment(seg, i) ==
    CASE seg = "%(id)s"    -> i.id
      [] seg = "%(ext)s"   -> i.ext
      [] seg = "%(title)s" -> i.title
      [] OTHER             -> seg

\* ydl.prepare_filename(info)
prepare_filename(tmpl, i) ==
    [dir |-> tmpl.dir,
     name |-> [k \in 1..Len(tmpl.name) |-> ExpandSegment(tmpl.name[k], i)]]

BuildOpts(q) ==
    [quiet |-> TRUE,
     format |-> QUALITY_SPEC[q],
     merge_output_format |-> "mp4",
     outtmpl |-> outtmpl,
     noprogress |-> TRUE,
     restrictfilenames |-> TRUE,
     retries |-> 5,
     fragment_retries |-> 10,
     trim_file_name |-> 120]

\* Every path a download can be given.
Paths ==
    { prepare_filename(BuildOpts(q).outtmpl, Extract(u)[1]) :
        q \in DOMAIN QUALITY_SPEC, u \in {v \in UrlInputs : Extract(v) # None} }

\* Content of a path: "absent", "empty" (a file of size zero), or the id of
\* the media whose bytes the file holds.
Contents == {"absent", "empty"} \cup DOMAIN MediaSizeMB

\* DownloadError messages the engine raises in the script's runs.
EngineErrors == { Fragments[3], Fragments[14], Fragments[10] \o Fragments[3] }

(* Rendered elements *)

ButtonEl(disabled) ==
    [kind |-> "button", body |-> <<"Descargar video">>, disabled |-> disabled]
WarningEl(text)   == [kind |-> "warning", body |-> text]
ErrorEl(text)     == [kind |-> "error", body |-> text]
ExceptionEl(e)    == [kind |-> "exception", body |-> e.msg, type |-> e.type]
SuccessEl(text)   == [kind |-> "success", body |-> text]
DownloadButtonEl(data, name, k) ==
    [kind |-> "download_button", body |-> <<"Guardar MP4">>, data |-> data,
     file_name |-> name, mime |-> "video/mp4", key |-> k]

MsgNoUrl      == <<"Copia primero una URL valida.">>
MsgNoFile     == <<"No se genero ningun archivo. Verifica la URL y vuelve a intentar.">>
MsgUnexpected == <<"Ocurrio un error inesperado durante la descarga.">>

UrlMissing_Never(u) == FALSE

\* if not url:
UrlMissing(u) == u = ""

NoFileProduced_OnlyMissing(c) == c = "absent"

\* not file_path.exists() or file_path.stat().st_size == 0
NoFileProduced(c) == c = "absent" \/ c = "empty"

OnDownloadError_Raw(e) ==
    << ErrorEl(<<"**">> \o TitleUnknown \o <<"**\n\n">> \o e.msg), ExceptionEl(e) >>

\* except DownloadError as e: classify, st.error, st.exception
OnDownloadError(e) ==
    LET c == classify_download_error(e.msg) IN
    << ErrorEl(<<"**">> \o c[1] \o <<"**\n\n">> \o c[2]), ExceptionEl(e) >>

\* except Exception as e: st.error, st.exception
OnUnexpectedError(e) ==
    << ErrorEl(MsgUnexpected), ExceptionEl(e) >>

\* st.success(...); st.download_button(label, data=f.read(),
\* file_name=file_path.name, mime="video/mp4")
OfferFile(i, p, c) ==
    << SuccessEl(<<"Descarga completada: **", i.title, "**">>),
       DownloadButtonEl(c, p.name, None) >>

TypeOK ==
    /\ pc \in [Sessions -> {"idle", "engine", "returned"}]
    /\ url \in [Sessions -> UrlInputs]
    /\ quality_choice \in [Sessions -> DOMAIN QUALITY_SPEC]
    /\ files \in [Paths -> Contents]

InitHandler ==
    /\ pc = [s \in Sessions |-> "idle"]
    /\ url = [s \in Sessions |-> ""]
    /\ quality_choice = [s \in Sessions |-> "Best available"]
    /\ ydl_opts = [s \in Sessions |-> None]
    /\ info = [s \in Sessions |-> None]
    /\ file_path = [s \in Sessions |-> None]
    /\ screen = [s \in Sessions |-> << >>]
    /\ calls = [s \in Sessions |-> << >>]
    /\ opened = [s \in Sessions |-> << >>]
    /\ files = [p \in Paths |-> "absent"]

Init ==
    /\ err_msg = None
    /\ result = None
    /\ InitHandler

\* The script's top, common to every run: the inputs are read, the button
\* is rendered, and nothing of the previous run is kept.
BeginRun(s, u, q) ==
    /\ pc[s] = "idle"
    /\ url' = [url EXCEPT ![s] = u]
    /\ quality_choice' = [quality_choice EXCEPT ![s] = q]
    /\ info' = [info EXCEPT ![s] = None]
    /\ file_path' = [file_path EXCEPT ![s] = None]
    /\ calls' = [calls EXCEPT ![s] = << >>]
    /\ opened' = [opened EXCEPT ![s] = << >>]
    /\ UNCHANGED << files, err_msg, result >>

\* A run in which st.button returns False.
RunWithoutClick(s, u, q) ==
    /\ BeginRun(s, u, q)
    /\ screen' = [screen EXCEPT ![s] = << ButtonEl(u = "") >>]
    /\ ydl_opts' = [ydl_opts EXCEPT ![s] = None]
    /\ UNCHANGED pc

\* A run in which st.button returns True.  Whether a disabled button can
\* report a click is the UI layer's business and is left open here: the
\* script's own guard decides what happens then.
RunWithClick(s, u, q) ==
    /\ BeginRun(s, u, q)
    /\ IF UrlMissing(u)
       THEN /\ screen' = [screen EXCEPT ![s] =
                            << ButtonEl(u = ""), WarningEl(MsgNoUrl) >>]
            /\ ydl_opts' = [ydl_opts EXCEPT ![s] = None]
            /\ UNCHANGED pc
       ELSE /\ screen' = [screen EXCEPT ![s] = << ButtonEl(u = "") >>]
            /\ ydl_opts' = [ydl_opts EXCEPT ![s] = Some(BuildOpts(q))]
            /\ pc' = [pc EXCEPT ![s] = "engine"]

\* ydl.extract_info(url, download=True) returns; file_path is computed.
EngineReturns(s, write) ==
    /\ pc[s] = "engine"
    /\ Extract(url[s]) # None
    /\ LET i == Extract(url[s])[1]
           p == prepare_filename(ydl_opts[s][1].outtmpl, i)
       IN
        /\ calls' = [calls EXCEPT ![s] = Append(@, url[s])]
        /\ info' = [info EXCEPT ![s] = Some(i)]
        /\ file_path' = [file_path EXCEPT ![s] = Some(p)]
        /\ files' = IF write = "keep" THEN files
                    ELSE [files EXCEPT ![p] = IF write = "media" THEN i.id
                                              ELSE "empty"]
        /\ pc' = [pc EXCEPT ![s] = "returned"]
        /\ UNCHANGED << url, quality_choice, ydl_opts, screen, opened,
                        err_msg, result >>

\* The engine writes the media's file at the path.
EngineDownloads(s) == EngineReturns(s, "media")

\* The engine returns and leaves the path as it was: nothing produced, or a
\* file already at the path that it does not overwrite.
EngineLeavesPath(s) == EngineReturns(s, "keep")

\* The engine returns having written a file of size zero.
EngineWritesEmpty(s) == EngineReturns(s, "empty")

EndRun(s, els) ==
    /\ screen' = [screen EXCEPT ![s] = @ \o els]
    /\ pc' = [pc EXCEPT ![s] = "idle"]
    /\ UNCHANGED << url, quality_choice, ydl_opts, files, err_msg, result >>

\* ydl.extract_info raises DownloadError(m).
EngineRaisesDownloadError(s, m) ==
    /\ pc[s] = "engine"
    /\ calls' = [calls EXCEPT ![s] = Append(@, url[s])]
    /\ EndRun(s, OnDownloadError([type |-> "DownloadError", msg |-> m]))
    /\ UNCHANGED << info, file_path, opened >>

\* ydl.extract_info raises any other Exception.
EngineRaisesOther(s) ==
    /\ pc[s] = "engine"
    /\ calls' = [calls EXCEPT ![s] = Append(@, url[s])]
    /\ EndRun(s, OnUnexpectedError([type |-> "Exception", msg |-> <<"boom">>]))
    /\ UNCHANGED << info, file_path, opened >>

\* The script after the engine call: the file check, then either the
\* failure report and st.stop(), or the success message and the save control.
\* st.stop() ends the run by raising a script-control exception that is not
\* an Exception subclass, so the handlers of lines 152-158 do not see it.
Finish(s) ==
    /\ pc[s] = "returned"
    /\ LET p == file_path[s][1]
           c == files[p]
       IN
        /\ IF NoFileProduced(c)
           THEN /\ EndRun(s, << ErrorEl(MsgNoFile) >>)
                /\ UNCHANGED opened
           ELSE /\ EndRun(s, OfferFile(info[s][1], p, c))
                /\ opened' = [opened EXCEPT ![s] = Append(@, p)]
        /\ UNCHANGED << info, file_path, calls >>

Next ==
    \E s \in Sessions :
        \/ \E u \in UrlInputs, q \in DOMAIN QUALITY_SPEC : RunWithoutClick(s, u, q)
        \/ \E u \in UrlInputs, q \in DOMAIN QUALITY_SPEC : RunWithClick(s, u, q)
        \/ EngineDownloads(s)
        \/ EngineLeavesPath(s)
        \/ EngineWritesEmpty(s)
        \/ \E m \in EngineErrors : EngineRaisesDownloadError(s, m)
        \/ EngineRaisesOther(s)
        \/ Finish(s)

Spec == Init /\ [][Next]_vars

-----------------------------------------------------------------------------
(* Claims about the script (checked under Spec) *)

Kinds(sc) == [k \in 1..Len(sc) |-> sc[k].kind]

Shows(s, kind) == \E k \in 1..Len(screen[s]) : screen[s][k].kind = kind

SaveControl(s) == screen[s][Len(screen[s])]

RECURSIVE SumSizes(_, _)
SumSizes(f, ps) ==
    IF ps = {} THEN 0
    ELSE LET p == CHOOSE x \in ps : TRUE
         IN (IF f[p] \in DOMAIN MediaSizeMB THEN MediaSizeMB[f[p]] ELSE 0)
                + SumSizes(f, ps \ {p})

\* Total size of the temporary directory, in MB.
DirSizeMB(f) == SumSizes(f, DOMAIN f)

\* The size above which the temporary directory is to be purged, in MB.
PurgeThresholdMB == 300

\* C1: when the engine has returned and the path it reported is missing or
\* of size zero, the rest of the run reports the no-file failure, opens no
\* file and shows neither the success message nor the save control.
C1_NoFileReported ==
    [][ \A s \in Sessions :
          ( /\ pc[s] = "returned"
            /\ pc'[s] = "idle"
            /\ files[file_path[s][1]] \in {"absent", "empty"} )
          => /\ \E k \in 1..Len(screen'[s]) :
                    screen'[s][k] = ErrorEl(MsgNoFile)
             /\ \A k \in 1..Len(screen'[s]) :
                    screen'[s][k].kind \notin {"success", "download_button"}
             /\ opened'[s] = << >> ]_vars

C1_Witness ==
    \E s \in Sessions :
        /\ pc[s] = "idle"
        /\ Len(calls[s]) = 1
        /\ file_path[s] # None
        /\ files[file_path[s][1]] = "empty"
        /\ Kinds(screen[s]) = << "button", "error" >>
        /\ screen[s][2].body = MsgNoFile

\* C2: a save control offers the bytes and the file name of the media its
\* request downloaded, under a key made from the media identifier, so that
\* the controls of two downloads of different media differ in key and bytes.
C2_SaveControlScopedByMedia ==
    \A s \in Sessions :
        Shows(s, "download_button") =>
            /\ SaveControl(s).data = info[s][1].id
            /\ SaveControl(s).file_name = file_path[s][1].name
            /\ SaveControl(s).key # None
            /\ \A t \in Sessions :
                  ( /\ Shows(t, "download_button")
                    /\ info[t][1].id # info[s][1].id )
                  => /\ SaveControl(t).key # SaveControl(s).key
                     /\ SaveControl(t).data # SaveControl(s).data

\* C3: when a request starts after a successful download, with no other
\* session having run, the directory holds at most 300 MB (it was purged if
\* it held more); and a successful download that ends with the directory at
\* or below 300 MB leaves every file as it was.
C3_PurgedAboveThreshold ==
    [][ \A s \in Sessions :
          /\ ( /\ pc[s] = "idle"
               /\ pc'[s] = "engine"
               /\ Shows(s, "success")
               /\ \A t \in Sessions \ {s} : screen[t] = << >> )
             => DirSizeMB(files') <= PurgeThresholdMB
          /\ ( /\ pc[s] = "returned"
               /\ pc'[s] = "idle"
               /\ "success" \in {screen'[s][k].kind : k \in 1..Len(screen'[s])}
               /\ DirSizeMB(files) <= PurgeThresholdMB )
             => files' = files ]_vars

\* C4: two requests whose media identifiers differ are given different
\* paths in the temporary directory.
C4_DistinctMediaDistinctPaths ==
    \A s, t \in Sessions :
        ( /\ info[s] # None
          /\ info[t] # None
          /\ info[s][1].id # info[t][1].id )
        => file_path[s] # file_path[t]

\* C9: a run whose engine call raises has called the engine once, shows
\* exactly one error (the classified title and explanation for a
\* DownloadError, the generic message otherwise) followed by the exception,
\* opens no file and offers no save control, and leaves the session idle;
\* and a request that starts carries nothing over from the run before it.
C9_FailureReportedOnce ==
    [][ \A s \in Sessions :
          /\ ( pc[s] = "engine" /\ pc'[s] = "idle" )
             => /\ Len(calls'[s]) = 1
                /\ Kinds(screen'[s]) = << "button", "error", "exception" >>
                /\ screen'[s][2].body =
                     IF screen'[s][3].type = "DownloadError"
                     THEN LET c == classify_download_error(screen'[s][3].body)
                          IN <<"**">> \o c[1] \o <<"**\n\n">> \o c[2]
                     ELSE MsgUnexpected
                /\ opened'[s] = << >>
          /\ ( pc[s] = "idle" /\ pc'[s] = "engine" )
             => /\ calls'[s] = << >>
                /\ opened'[s] = << >>
                /\ info'[s] = None
                /\ file_path'[s] = None
                /\ Kinds(screen'[s]) = << "button" >>
                /\ ydl_opts'[s] = Some(BuildOpts(quality_choice'[s])) ]_vars

C9_Witness ==
    \E s, t \in Sessions :
        /\ pc[s] = "idle"
        /\ Kinds(screen[s]) = << "button", "error", "exception" >>
        /\ screen[s][3].type = "DownloadError"
        /\ screen[s][2].body = <<"**">> \o TitleDrm \o <<"**\n\n">> \o ExplDrm
        /\ pc[t] = "idle"
        /\ Kinds(screen[t]) = << "button", "error", "exception" >>
        /\ screen[t][3].type = "Exception"

\* C10: the engine is never called with an empty URL; in a run whose URL is
\* empty the button is rendered disabled, no options are built, the engine
\* is not called and no path is computed, whether or not the button
\* reported a click.
C10_NoEngineCallWithoutUrl ==
    \A s \in Sessions :
        /\ \A k \in 1..Len(calls[s]) : calls[s][k] # ""
        /\ screen[s] # << >> => screen[s][1].disabled = (url[s] = "")
        /\ url[s] = "" =>
              /\ pc[s] = "idle"
              /\ ydl_opts[s] = None
              /\ calls[s] = << >>
              /\ file_path[s] = None
              /\ opened[s] = << >>

C10_Witness ==
    \E s \in Sessions :
        /\ url[s] = ""
        /\ Kinds(screen[s]) = << "button", "warning" >>
        /\ screen[s][1].disabled
        /\ \E p \in Paths : files[p] # "absent"

-----------------------------------------------------------------------------
(* The classifier run on every bounded message *)

InitClassify ==
    /\ err_msg \in Messages
    /\ result = None
    /\ InitHandler

\* title, explanation = classify_download_error(str(e))
Classify ==
    /\ result = None
    /\ result' = classify_download_error(err_msg)
    /\ UNCHANGED << err_msg, handlerVars >>

NextClassify == Classify

SpecClassify == InitClassify /\ [][NextClassify]_vars

-----------------------------------------------------------------------------
(* Claims about classify_download_error (checked under SpecClassify).      *)
(* The patterns are looked up here letter by letter, either case, in the   *)
(* message as given, not through the classifier's lower-cased copy.        *)

UpperOf(c) ==
    IF \E i \in 1..Len(LowerCase) : LowerCase[i] = c
    THEN UpperCase[CHOOSE i \in 1..Len(LowerCase) : LowerCase[i] = c]
    ELSE c

Mentions(pat, s) ==
    \E i \in 0..(Len(s) - Len(pat)) :
        \A j \in 1..Len(pat) : s[i + j] \in {pat[j], UpperOf(pat[j])}

IsUnsupported(m) == Mentions(PatUnsupportedUrl, m) \/ Mentions(PatNoExtractor, m)
IsDrm(m)         == Mentions(PatDrm, m) \/ Mentions(PatEncrypted, m)
IsGeo(m)         == Mentions(PatUnavailable, m) /\ Mentions(PatCountry, m)
IsLogin(m)       == Mentions(PatLogin, m) \/ Mentions(PatCookies, m)
                        \/ Mentions(PatPrivate, m)
IsFfmpeg(m)      == Mentions(PatFfmpeg, m) /\ Mentions(PatNotFound, m)
IsTooLong(m)     == Mentions(PatFileNameTooLong, m)

Classified == result # None

\* C5 (as stated): every message containing "drm" or "encrypted", in any
\* case, is classified as DRM, whatever else it contains.
C5_Original ==
    (Classified /\ IsDrm(err_msg)) => result[1] = TitleDrm

\* C5 (amended): every message containing "drm" or "encrypted", in any case,
\* and neither "unsupported url" nor "no extractor", is classified as DRM.
C5_DrmUnlessUnsupported ==
    (Classified /\ IsDrm(err_msg) /\ ~IsUnsupported(err_msg))
        => result = << TitleDrm, ExplDrm >>

C5_Witness ==
    /\ Classified
    /\ Mentions(PatEncrypted, err_msg)
    /\ ~Mentions(PatDrm, err_msg)
    /\ IsLogin(err_msg)
    /\ result[1] = TitleDrm

\* C6 (as stated): every message containing "login", "cookies" or "private",
\* in any case, is classified as login-required, whatever else it contains.
C6_Original ==
    (Classified /\ IsLogin(err_msg)) => result[1] = TitleLogin

\* C6 (amended): every message containing "login", "cookies" or "private",
\* in any case, that matches none of the unsupported-site, DRM and geo-block
\* patterns is classified as login-required.
C6_LoginUnlessEarlier ==
    (Classified /\ IsLogin(err_msg) /\ ~IsUnsupported(err_msg)
        /\ ~IsDrm(err_msg) /\ ~IsGeo(err_msg))
        => result = << TitleLogin, ExplLogin >>

C6_Witness ==
    /\ Classified
    /\ Mentions(PatPrivate, err_msg)
    /\ IsFfmpeg(err_msg)
    /\ result[1] = TitleLogin

\* C7 (as stated): every message containing both "ffmpeg" and "not found",
\* in any case, is classified as FFmpeg-missing, whatever else it contains.
C7_Original ==
    (Classified /\ IsFfmpeg(err_msg)) => result[1] = TitleFfmpeg

\* C7 (amended): every message containing both "ffmpeg" and "not found", in
\* any case, that matches none of the unsupported-site, DRM, geo-block and
\* login-required patterns is classified as FFmpeg-missing.
C7_FfmpegUnlessEarlier ==
    (Classified /\ IsFfmpeg(err_msg) /\ ~IsUnsupported(err_msg)
        /\ ~IsDrm(err_msg) /\ ~IsGeo(err_msg) /\ ~IsLogin(err_msg))
        => result = << TitleFfmpeg, ExplFfmpeg >>

C7_Witness ==
    /\ Classified
    /\ IsFfmpeg(err_msg)
    /\ IsTooLong(err_msg)
    /\ result[1] = TitleFfmpeg

\* C8: a message is classified as unknown exactly when it matches none of
\* the six patterns, and the explanation is then the message itself, in its
\* original case.
C8_UnknownIffUnmatched ==
    Classified =>
        /\ result[1] = TitleUnknown <=>
              ~(IsUnsupported(err_msg) \/ IsDrm(err_msg) \/ IsGeo(err_msg)
                \/ IsLogin(err_msg) \/ IsFfmpeg(err_msg) \/ IsTooLong(err_msg))
        /\ result[1] = TitleUnknown => result[2] = err_msg

C8_Witness ==
    /\ Classified
    /\ result[1] = TitleUnknown
    /\ err_msg # StrLower(err_msg)
    /\ Mentions(PatFfmpeg, err_msg)
    /\ result[2] = err_msg
====
